---- MODULE Spec2Model ----
(***************************************************************************)
(* A model of src/src/main.rs: the service-account token exchange          *)
(* (get_google_access_token), the sheet read with its two-column filter    *)
(* and output.json artifact (read_google_sheet), the three row mutations   *)
(* (append / update / delete) and the orchestrating main.                  *)
(*                                                                         *)
(* Every async function is split at its await on the network: a _call      *)
(* step runs the code up to `.send()`, a _resp step runs the code from the *)
(* answer to the return.  `pc` is the position of the running function,    *)
(* `mainpc` the position of main.  A Rust panic stops the process:         *)
(* pc = "panicked" and nothing runs afterwards.                            *)
(*                                                                         *)
(* Four specifications share the actions:                                  *)
(*   Spec        the program as shipped: main                              *)
(*   SpecToken   get_google_access_token called directly, several times    *)
(*   SpecRead    read_google_sheet called directly with any arguments      *)
(*   SpecMutate  the three mutation functions called directly              *)
(***************************************************************************)
EXTENDS Integers, Sequences, FiniteSets, TLC

VARIABLES
    pc,             \* position of the running library function
    mainpc,         \* position of main ("Lib" when the functions are called directly)
    calls,          \* direct calls made so far (SpecToken / SpecRead / SpecMutate)
    env,            \* process environment: .env variables and build profile
    clock,          \* last value read from SystemTime::now(), seconds since the epoch
    args,           \* arguments of the running / last function call
    requests,       \* every HTTP request sent so far, in order
    assertions,     \* every Claims struct built so far, in order
    response,       \* the HTTP answer the running / last call received
    ret,            \* what the last call returned
    token,          \* main's `token` binding
    stderr,         \* lines main wrote with eprintln!
    header,         \* read_google_sheet local `header`
    filtered_data,  \* read_google_sheet local `filtered_data`
    count,          \* read_google_sheet local `count`
    writes,         \* complete writes of output.json by the running / last read
    file            \* contents of output.json

vars == <<pc, mainpc, calls, env, clock, args, requests, assertions, response,
          ret, token, stderr, header, filtered_data, count, writes, file>>

-----------------------------------------------------------------------------
(* Bounds of the model *)

MaxData == 2        \* data rows after the header in `values`
MaxCols == 2        \* cells in a generated data row; column indices range over 0..MaxCols
MaxClock == 2       \* largest clock reading, in seconds
MaxCalls == 2       \* direct calls in SpecToken and SpecMutate
MaxRowIndex == 2    \* largest row_index passed to update / delete

(* Program constants *)

TokenLifetime == 3600       \* `exp: now + 3600`
column_index1 == 1          \* main: Column B
column_index2 == 9          \* main: Column J
\* usize::MAX stands for 2^64 - 1.  TLC's integers are 32 bits wide, so the
\* wrapped value of `0usize - 1` is modelled by the largest integer TLC has;
\* all that is used of it is that it is not row_index - 1 for any row index.
USIZE_MAX == 2147483647

filter_value1 == "DEBENHAMS"
filter_value2 == "FALSE"

-----------------------------------------------------------------------------
(* serde_json::Value, as far as the program looks into it *)

Null == [kind |-> "Null", s |-> "", items |-> <<>>]
Str(x) == [kind |-> "String", s |-> x, items |-> <<>>]
Bool(x) == [kind |-> "Bool", s |-> x, items |-> <<>>]
Arr(xs) == [kind |-> "Array", s |-> "", items |-> xs]

\* Option<T> is a sequence of length 0 (None) or 1 (Some)
None == <<>>
Some(x) == <<x>>

\* Value::as_str: Some only for a JSON string
as_str(v) == IF v.kind = "String" THEN Some(v.s) ELSE None

\* Value::as_array: Some only for a JSON array
as_array(v) == IF v.kind = "Array" THEN Some(v.items) ELSE None

\* Value::get(usize): Some only for an array that is long enough (0-based index)
get(v, i) == IF v.kind = "Array" /\ i < Len(v.items) THEN Some(v.items[i + 1]) ELSE None

\* iter().skip(n)
RECURSIVE skip(_, _)
skip(xs, n) == IF n = 0 \/ xs = <<>> THEN xs ELSE skip(Tail(xs), n - 1)

-----------------------------------------------------------------------------
(* Inputs *)

Strs == {filter_value1, filter_value2}
Cells == {Str(filter_value1), Bool(filter_value2)}

RECURSIVE SeqsUpTo(_, _)
SeqsUpTo(S, n) ==
    IF n = 0 THEN {<<>>}
    ELSE LET shorter == SeqsUpTo(S, n - 1)
         IN shorter \cup {Append(q, x) : q \in {p \in shorter : Len(p) = n - 1}, x \in S}

\* data rows: arrays of up to MaxCols cells, and one row that is not an array
Rows == {Arr(cs) : cs \in SeqsUpTo(Cells, MaxCols)} \cup {Str(filter_value1)}

\* a row as wide as the sheet main reads: cell b in column B, cell j in column J
WideRow(b, j) ==
    Arr([i \in 1..(column_index2 + 1) |->
            IF i = column_index1 + 1 THEN b
            ELSE IF i = column_index2 + 1 THEN j ELSE Str("x")])
WideRows == {WideRow(b, j) : b \in {Str(filter_value1), Str("OTHER")},
                             j \in {Str(filter_value2), Bool(filter_value2)}}

\* header rows: titles, and a header that looks like matching data
Headers == {Arr(<<Str("Name"), Str("Channel")>>),
            Arr([i \in 1..MaxCols |-> Str(filter_value1)])}
WideHeader == WideRow(Str(filter_value1), Str(filter_value2))

\* the `values` arrays a well-formed response can carry: empty, or a header
\* followed by data rows
ValueArrays ==
    {<<>>}
    \cup {<<h>> \o d : h \in Headers, d \in SeqsUpTo(Rows, MaxData)}
    \cup {<<WideHeader>> \o d : d \in SeqsUpTo(WideRows, MaxData)}

Tokens == {"tokA", "tokB"}
ColIdx == 0..MaxCols
MutRows == {<<>>, <<"X", "Y">>}
RowIndices == 0..MaxRowIndex

\* an HTTP exchange: the transport may fail; otherwise there is a status and a
\* body that is JSON or not; of a JSON body the program reads two fields
\* (a missing field reads as Null)
Resp(tr, st, js, at, vs) ==
    [transport |-> tr, status |-> st, json |-> js, access_token |-> at, values |-> vs]
NoResponse == Resp("none", 0, FALSE, Null, Null)
TransportFailure == Resp("fail", 0, FALSE, Null, Null)
Statuses == {200, 401, 403}

TokenResponses ==
    {TransportFailure}
    \cup {Resp("ok", st, FALSE, Null, Null) : st \in Statuses}
    \cup {Resp("ok", st, TRUE, Null, Null) : st \in Statuses}
    \cup {Resp("ok", 200, TRUE, Bool("TRUE"), Null)}
    \cup {Resp("ok", 200, TRUE, Str(t), Null) : t \in Tokens}

ReadResponses ==
    {TransportFailure}
    \cup {Resp("ok", st, FALSE, Null, Null) : st \in Statuses}
    \cup {Resp("ok", st, TRUE, Null, Null) : st \in Statuses}
    \cup {Resp("ok", 200, TRUE, Null, Str("x"))}
    \cup {Resp("ok", 200, TRUE, Null, Arr(vs)) : vs \in ValueArrays}

MutResponses ==
    {TransportFailure}
    \cup {Resp("ok", st, js, Null, Null) : st \in Statuses, js \in BOOLEAN}

\* File::create / write_all on output.json
WriteOutcomes == {"ok", "create_fail", "write_fail"}

Keys == {"missing", "bad_pem", "bad_rsa", "ok"}
Envs == [email : BOOLEAN, key : Keys, sheet : BOOLEAN, overflow_checks : BOOLEAN]

-----------------------------------------------------------------------------
(* Records of the state *)

NoClaims == [iss |-> "", iat |-> -1, exp |-> -1]

NoArgs == [fn |-> "none", access_token |-> "", column_index1 |-> 0, filter_value1 |-> "",
           column_index2 |-> 0, filter_value2 |-> "", row_index |-> 0, values |-> <<>>]

Req(ep, me, au, as, ri, st, en, vs) ==
    [endpoint |-> ep, method |-> me, auth |-> au, assertion |-> as,
     row_index |-> ri, startIndex |-> st, endIndex |-> en, values |-> vs]

Ret(f, k, v) == [fn |-> f, kind |-> k, val |-> v]
NoRet == Ret("none", "none", "")

NoFile == [state |-> "absent", header |-> Null, filtered_data |-> <<>>, count |-> 0]
JsonOutput(h, fd, c) == [state |-> "written", header |-> h, filtered_data |-> fd, count |-> c]
Truncated == [state |-> "truncated", header |-> Null, filtered_data |-> <<>>, count |-> 0]

-----------------------------------------------------------------------------
(* get_google_access_token *)

\* a variant of BuildClaims that keeps the first assertion and hands it out again
BuildClaims_cached(now) ==
    IF assertions # <<>> THEN assertions[1]
    ELSE [iss |-> "client_email", iat |-> now, exp |-> now + TokenLifetime]

\* the Claims struct built from the clock reading
BuildClaims(now) ==
    [iss |-> "client_email", iat |-> now, exp |-> now + TokenLifetime]

\* EncodingKey::from_rsa_pem: fails on text that is not a PEM-encoded RSA key
from_rsa_pem(key) == key \in {"bad_rsa", "ok"}

\* jsonwebtoken::encode under RS256: fails when the key cannot sign
encode(key) == key = "ok"

\* whether the function gets as far as building Claims
ReachesClaims(now) == env.email /\ env.key # "missing" /\ now >= 0

\* a variant of TokenEarlyError that leaves the key to the token endpoint to judge
TokenEarlyError_key_unchecked(now) ==
    IF ~env.email THEN "VarError"
    ELSE IF env.key = "missing" THEN "VarError"
    ELSE IF now < 0 THEN "SystemTimeError"
    ELSE ""

\* the error the function returns before it sends anything ("" for none)
TokenEarlyError(now) ==
    IF ~env.email THEN "VarError"
    ELSE IF env.key = "missing" THEN "VarError"
    ELSE IF now < 0 THEN "SystemTimeError"
    ELSE IF ~from_rsa_pem(env.key) THEN "InvalidRsaKey"
    ELSE IF ~encode(env.key) THEN "SignError"
    ELSE ""

get_google_access_token_call(now) ==
    /\ pc = "idle"
    /\ clock' = now
    /\ args' = [NoArgs EXCEPT !.fn = "token"]
    /\ response' = NoResponse
    /\ assertions' = IF ReachesClaims(now)
                     THEN Append(assertions, BuildClaims(now)) ELSE assertions
    /\ IF TokenEarlyError(now) # ""
       THEN /\ pc' = "idle"
            /\ ret' = Ret("token", "Err", TokenEarlyError(now))
            /\ UNCHANGED requests
       ELSE /\ pc' = "token_await"
            /\ ret' = NoRet
            /\ requests' = Append(requests,
                   Req("token", "POST", "", BuildClaims(now), 0, 0, 0, <<>>))
    /\ UNCHANGED <<env, header, filtered_data, count, writes, file>>

\* the value of `response["access_token"].as_str()`
TokenField(r) == as_str(r.access_token)

get_google_access_token_resp ==
    /\ pc = "token_await"
    /\ \E r \in TokenResponses :
        /\ response' = r
        /\ IF r.transport = "fail" \/ ~r.json
           THEN pc' = "idle" /\ ret' = Ret("token", "Err", "reqwest::Error")
           ELSE IF TokenField(r) = None
           THEN pc' = "panicked" /\ ret' = NoRet      \* unwrap() on None
           ELSE pc' = "idle" /\ ret' = Ret("token", "Ok", TokenField(r)[1])
    /\ UNCHANGED <<mainpc, calls, token, stderr, env, clock, args, requests, assertions,
                   header, filtered_data, count, writes, file>>

-----------------------------------------------------------------------------
(* read_google_sheet *)

\* a variant of match_col that lets an absent cell match: map_or(true, ..)
match_col_absent_matches(row, column_index, filter_value) ==
    LET cell == get(row, column_index)
    IN IF cell = None THEN TRUE ELSE as_str(cell[1]) = Some(filter_value)

\* row.get(column_index).map_or(false, |cell| cell.as_str() == Some(filter_value))
match_col(row, column_index, filter_value) ==
    LET cell == get(row, column_index)
    IN IF cell = None THEN FALSE ELSE as_str(cell[1]) = Some(filter_value)

\* the `for row in ...` loop: pushes every row that matches both columns, in
\* order, and counts it
RECURSIVE FilterLoop(_, _, _, _, _, _)
FilterLoop(rows, c1, v1, c2, v2, acc) ==
    IF rows = <<>> THEN acc
    ELSE LET row == Head(rows)
             match_col1 == match_col(row, c1, v1)
             match_col2 == match_col(row, c2, v2)
         IN FilterLoop(Tail(rows), c1, v1, c2, v2,
                IF match_col1 /\ match_col2
                THEN [data |-> Append(acc.data, row), count |-> acc.count + 1]
                ELSE acc)

\* the rows the loop runs over
DataRows(values) == skip(values, 1)

\* a variant of ValuesField that reads a missing field as an empty array
ValuesField_missing_as_empty(r) ==
    IF r.values.kind = "Null" THEN Some(<<>>) ELSE as_array(r.values)

\* `response["values"].as_array()`
ValuesField(r) == as_array(r.values)

read_google_sheet_call(tok, c1, v1, c2, v2) ==
    /\ pc = "idle"
    /\ args' = [NoArgs EXCEPT !.fn = "read", !.access_token = tok,
                              !.column_index1 = c1, !.filter_value1 = v1,
                              !.column_index2 = c2, !.filter_value2 = v2]
    /\ response' = NoResponse
    /\ header' = Null /\ filtered_data' = <<>> /\ count' = 0 /\ writes' = 0
    /\ IF ~env.sheet
       THEN /\ pc' = "idle"
            /\ ret' = Ret("read", "Err", "VarError")
            /\ UNCHANGED requests
       ELSE /\ pc' = "read_await"
            /\ ret' = NoRet
            /\ requests' = Append(requests,
                   Req("read", "GET", tok, NoClaims, 0, 0, 0, <<>>))
    /\ UNCHANGED <<env, clock, assertions, file>>

read_google_sheet_resp ==
    /\ pc = "read_await"
    /\ \E r \in ReadResponses, w \in WriteOutcomes :
        /\ response' = r
        /\ IF r.transport = "fail" \/ ~r.json
           THEN /\ pc' = "idle" /\ ret' = Ret("read", "Err", "reqwest::Error")
                /\ UNCHANGED <<header, filtered_data, count, writes, file>>
           ELSE IF ValuesField(r) = None
           THEN \* "No data found!"
                /\ pc' = "idle" /\ ret' = Ret("read", "Ok", "")
                /\ UNCHANGED <<header, filtered_data, count, writes, file>>
           ELSE LET values == ValuesField(r)[1]
                    found == FilterLoop(DataRows(values), args.column_index1,
                                 args.filter_value1, args.column_index2,
                                 args.filter_value2, [data |-> <<>>, count |-> 0])
                IN IF Len(values) = 0
                   THEN \* `&values[0]`: index out of bounds
                        /\ pc' = "panicked" /\ ret' = NoRet
                        /\ UNCHANGED <<header, filtered_data, count, writes, file>>
                   ELSE /\ header' = values[1]
                        /\ filtered_data' = found.data
                        /\ count' = found.count
                        /\ pc' = "idle"
                        /\ CASE w = "ok" ->
                                  /\ file' = JsonOutput(values[1], found.data, found.count)
                                  /\ writes' = 1
                                  /\ ret' = Ret("read", "Ok", "")
                             [] w = "create_fail" ->
                                  /\ UNCHANGED <<file, writes>>
                                  /\ ret' = Ret("read", "Err", "io::Error")
                             [] w = "write_fail" ->
                                  /\ file' = Truncated
                                  /\ UNCHANGED writes
                                  /\ ret' = Ret("read", "Err", "io::Error")
    /\ UNCHANGED <<mainpc, calls, token, stderr, env, clock, args, requests, assertions>>

-----------------------------------------------------------------------------
(* append_row_to_google_sheet, update_row_in_google_sheet,
   delete_row_from_google_sheet *)

append_row_to_google_sheet_call(tok, new_row) ==
    /\ pc = "idle"
    /\ args' = [NoArgs EXCEPT !.fn = "append", !.access_token = tok, !.values = new_row]
    /\ response' = NoResponse
    /\ IF ~env.sheet
       THEN /\ pc' = "idle"
            /\ ret' = Ret("append", "Err", "VarError")
            /\ UNCHANGED requests
       ELSE /\ pc' = "append_await"
            /\ ret' = NoRet
            /\ requests' = Append(requests,
                   Req("append", "POST", tok, NoClaims, 0, 0, 0, new_row))
    /\ UNCHANGED <<env, clock, assertions, header, filtered_data, count, writes, file>>

\* how append answers its caller: `.send().await?.json::<Value>().await?`
\* fails on a transport error or a body that is not JSON; the status is not read
AppendResult(r) ==
    IF r.transport = "fail" \/ ~r.json THEN Ret("append", "Err", "reqwest::Error")
    ELSE Ret("append", "Ok", "")

append_row_to_google_sheet_resp ==
    /\ pc = "append_await"
    /\ \E r \in MutResponses :
        /\ response' = r
        /\ pc' = "idle"
        /\ ret' = AppendResult(r)
    /\ UNCHANGED <<mainpc, calls, token, stderr, env, clock, args, requests, assertions,
                   header, filtered_data, count, writes, file>>

update_row_in_google_sheet_call(tok, row_index, values) ==
    /\ pc = "idle"
    /\ args' = [NoArgs EXCEPT !.fn = "update", !.access_token = tok,
                              !.row_index = row_index, !.values = values]
    /\ response' = NoResponse
    /\ IF ~env.sheet
       THEN /\ pc' = "idle"
            /\ ret' = Ret("update", "Err", "VarError")
            /\ UNCHANGED requests
       ELSE /\ pc' = "update_await"
            /\ ret' = NoRet
            /\ requests' = Append(requests,
                   Req("update", "PUT", tok, NoClaims, row_index, 0, 0, values))
    /\ UNCHANGED <<env, clock, assertions, header, filtered_data, count, writes, file>>

\* how update and delete answer their caller: `.send().await?` fails on a
\* transport error only; the status is printed and Ok(()) returned
StatusOnlyResult(f, r) ==
    IF r.transport = "fail" THEN Ret(f, "Err", "reqwest::Error") ELSE Ret(f, "Ok", "")

update_row_in_google_sheet_resp ==
    /\ pc = "update_await"
    /\ \E r \in MutResponses :
        /\ response' = r
        /\ pc' = "idle"
        /\ ret' = StatusOnlyResult("update", r)
    /\ UNCHANGED <<mainpc, calls, token, stderr, env, clock, args, requests, assertions,
                   header, filtered_data, count, writes, file>>

\* `row_index - 1` on usize: a build with overflow checks (debug) panics at 0,
\* one without (release) wraps to usize::MAX.  None stands for the panic.
StartIndex(row_index) ==
    IF row_index >= 1 THEN Some(row_index - 1)
    ELSE IF env.overflow_checks THEN None ELSE Some(USIZE_MAX)

delete_row_from_google_sheet_call(tok, row_index) ==
    /\ pc = "idle"
    /\ args' = [NoArgs EXCEPT !.fn = "delete", !.access_token = tok,
                              !.row_index = row_index]
    /\ response' = NoResponse
    /\ IF ~env.sheet
       THEN /\ pc' = "idle"
            /\ ret' = Ret("delete", "Err", "VarError")
            /\ UNCHANGED requests
       ELSE IF StartIndex(row_index) = None
       THEN /\ pc' = "panicked"           \* attempt to subtract with overflow
            /\ ret' = NoRet
            /\ UNCHANGED requests
       ELSE /\ pc' = "delete_await"
            /\ ret' = NoRet
            /\ requests' = Append(requests,
                   Req("delete", "POST", tok, NoClaims, row_index,
                       StartIndex(row_index)[1], row_index, <<>>))
    /\ UNCHANGED <<env, clock, assertions, header, filtered_data, count, writes, file>>

delete_row_from_google_sheet_resp ==
    /\ pc = "delete_await"
    /\ \E r \in MutResponses :
        /\ response' = r
        /\ pc' = "idle"
        /\ ret' = StatusOnlyResult("delete", r)
    /\ UNCHANGED <<mainpc, calls, token, stderr, env, clock, args, requests, assertions,
                   header, filtered_data, count, writes, file>>

-----------------------------------------------------------------------------
(* main *)

\* `match get_google_access_token().await {`: main starts by calling the broker
MainStart ==
    /\ mainpc = "Start"
    /\ \E now \in clock..MaxClock : get_google_access_token_call(now)
    /\ mainpc' = "AcquireCalled"
    /\ UNCHANGED <<calls, token, stderr>>

\* `Ok(token) =>`: main goes straight on to read_google_sheet with that token
MainTokenOk ==
    /\ mainpc = "AcquireCalled" /\ pc = "idle"
    /\ ret.fn = "token" /\ ret.kind = "Ok"
    /\ token' = ret.val
    /\ read_google_sheet_call(ret.val, column_index1, filter_value1,
                              column_index2, filter_value2)
    /\ mainpc' = "ReadCalled"
    /\ UNCHANGED <<calls, stderr>>

\* `Err(e) => eprintln!("Error getting token: {}", e)`
MainTokenErr ==
    /\ mainpc = "AcquireCalled" /\ pc = "idle"
    /\ ret.fn = "token" /\ ret.kind = "Err"
    /\ stderr' = Append(stderr, "Error getting token")
    /\ mainpc' = "Failed"
    /\ UNCHANGED <<pc, calls, env, clock, args, requests, assertions, response, ret,
                   token, header, filtered_data, count, writes, file>>

\* `if let Err(e) = read_google_sheet(..).await { eprintln!(..) }`, then main ends
MainReadDone ==
    /\ mainpc = "ReadCalled" /\ pc = "idle"
    /\ ret.fn = "read"
    /\ IF ret.kind = "Err"
       THEN stderr' = Append(stderr, "Error reading sheet") /\ mainpc' = "Failed"
       ELSE UNCHANGED stderr /\ mainpc' = "Done"
    /\ UNCHANGED <<pc, calls, env, clock, args, requests, assertions, response, ret,
                   token, header, filtered_data, count, writes, file>>

-----------------------------------------------------------------------------
(* Direct callers of the library functions *)

CallToken ==
    /\ mainpc = "Lib" /\ calls < MaxCalls
    /\ calls' = calls + 1
    /\ \E now \in clock..MaxClock : get_google_access_token_call(now)
    /\ UNCHANGED <<mainpc, token, stderr>>

CallRead ==
    /\ mainpc = "Lib" /\ calls = 0
    /\ calls' = calls + 1
    /\ \E c1 \in ColIdx, v1 \in Strs, c2 \in ColIdx, v2 \in Strs :
          read_google_sheet_call("tokA", c1, v1, c2, v2)
    /\ UNCHANGED <<mainpc, token, stderr>>

CallAppend ==
    /\ mainpc = "Lib" /\ calls < MaxCalls
    /\ calls' = calls + 1
    /\ \E tok \in Tokens, row \in MutRows : append_row_to_google_sheet_call(tok, row)
    /\ UNCHANGED <<mainpc, token, stderr>>

CallUpdate ==
    /\ mainpc = "Lib" /\ calls < MaxCalls
    /\ calls' = calls + 1
    /\ \E tok \in Tokens, i \in RowIndices, row \in MutRows :
          update_row_in_google_sheet_call(tok, i, row)
    /\ UNCHANGED <<mainpc, token, stderr>>

CallDelete ==
    /\ mainpc = "Lib" /\ calls < MaxCalls
    /\ calls' = calls + 1
    /\ \E tok \in Tokens, i \in RowIndices : delete_row_from_google_sheet_call(tok, i)
    /\ UNCHANGED <<mainpc, token, stderr>>

-----------------------------------------------------------------------------
(* Specifications *)

InitWith(m, E) ==
    /\ pc = "idle"
    /\ mainpc = m
    /\ calls = 0
    /\ env \in E
    /\ clock = -1
    /\ args = NoArgs
    /\ requests = <<>>
    /\ assertions = <<>>
    /\ response = NoResponse
    /\ ret = NoRet
    /\ token = ""
    /\ stderr = <<>>
    /\ header = Null
    /\ filtered_data = <<>>
    /\ count = 0
    /\ writes = 0
    /\ file = NoFile

\* main: any environment (the build profile plays no part in what main calls)
Init == InitWith("Start", {e \in Envs : e.overflow_checks})
Next ==
    \/ MainStart
    \/ get_google_access_token_resp
    \/ MainTokenOk
    \/ MainTokenErr
    \/ read_google_sheet_resp
    \/ MainReadDone
Spec == Init /\ [][Next]_vars

\* the token broker alone
InitToken == InitWith("Lib", {e \in Envs : e.sheet /\ e.overflow_checks})
NextToken == CallToken \/ get_google_access_token_resp
SpecToken == InitToken /\ [][NextToken]_vars

\* the reader and filter alone
InitRead == InitWith("Lib", {e \in Envs : e.email /\ e.key = "ok" /\ e.overflow_checks})
NextRead == CallRead \/ read_google_sheet_resp
SpecRead == InitRead /\ [][NextRead]_vars

\* the mutation client alone
InitMutate == InitWith("Lib", {e \in Envs : e.email /\ e.key = "ok"})
NextMutate ==
    \/ CallAppend
    \/ append_row_to_google_sheet_resp
    \/ CallUpdate
    \/ update_row_in_google_sheet_resp
    \/ CallDelete
    \/ delete_row_from_google_sheet_resp
SpecMutate == InitMutate /\ [][NextMutate]_vars

-----------------------------------------------------------------------------
(* Properties *)

\* the running / last call is `f` and has returned or panicked
Finished(f) == args.fn = f /\ pc \in {"idle", "panicked"}

\* the answer was a JSON body
JsonBody == response.transport = "ok" /\ response.json

\* the answer carried a `values` array with at least a header row
FetchedTable == JsonBody /\ response.values.kind = "Array" /\ Len(response.values.items) >= 1

\* the cell at 0-based column c of the row exists and is the string v
CellIs(row, c, v) ==
    /\ row.kind = "Array"
    /\ c + 1 <= Len(row.items)
    /\ row.items[c + 1].kind = "String"
    /\ row.items[c + 1].s = v

\* the row satisfies both predicates of the running read
RowSelected(row) ==
    /\ CellIs(row, args.column_index1, args.filter_value1)
    /\ CellIs(row, args.column_index2, args.filter_value2)

\* C1: after a read of a table (header + data rows), filtered_data is exactly
\* the data rows, header excluded, that have both referenced cells present and
\* string-equal to the expected values, in their original order and with
\* repetitions kept; count is their number; what is saved is that result.
C1_FilterExact ==
    (Finished("read") /\ FetchedTable) =>
        /\ filtered_data = SelectSeq(Tail(response.values.items), RowSelected)
        /\ count = Len(filtered_data)
        /\ header = response.values.items[1]
        /\ ret.kind = "Ok" => file = JsonOutput(header, filtered_data, count)

\* C1 witness: a header that itself satisfies both predicates (on two different
\* columns) is left out, while two equal data rows are both kept
C1_Witness ==
    /\ Finished("read") /\ FetchedTable /\ ret.kind = "Ok"
    /\ args.column_index1 # args.column_index2
    /\ RowSelected(header)
    /\ count = 2
    /\ filtered_data[1] = filtered_data[2]
    /\ Len(response.values.items) = 3

\* C2: deleteRow(N), N >= 1, sends one batchUpdate request with
\* startIndex = N - 1 and endIndex = N; deleteRow(N), N <= 0, returns an
\* InvalidIndex error and sends nothing.
C2_DeleteIndex ==
    (args.fn = "delete" /\ env.sheet) =>
        IF args.row_index >= 1
        THEN /\ requests # <<>>
             /\ requests[Len(requests)].endpoint = "delete"
             /\ requests[Len(requests)].startIndex = args.row_index - 1
             /\ requests[Len(requests)].endIndex = args.row_index
        ELSE /\ pc = "idle"
             /\ ret = Ret("delete", "Err", "InvalidIndex")
             /\ \A k \in 1..Len(requests) :
                   requests[k].endpoint = "delete" => requests[k].row_index >= 1

\* C3: a token response whose JSON body has no access_token makes acquire
\* return an error to its caller; it does not return a token and the process
\* does not abort.
C3_TokenMissingIsError ==
    (args.fn = "token" /\ JsonBody /\ response.access_token.kind = "Null") =>
        /\ pc = "idle"
        /\ ret.fn = "token" /\ ret.kind = "Err"

\* C4: a mutation returns success only when the service answered 2xx; a
\* non-2xx answer is returned to the caller as an error.
C4_RejectedIsError ==
    (args.fn \in {"append", "update", "delete"} /\ pc = "idle"
        /\ response.transport = "ok") =>
        (ret.kind = "Ok" => (response.status >= 200 /\ response.status <= 299))

\* C5: main sends a read or mutation request only after the token was
\* acquired, and with that token; after a failed acquisition it sends none and
\* ends in Failed; one step runs at a time; and when the process stops, main
\* is in Done or Failed.
C5_Orchestration ==
    /\ \A k \in 1..Len(requests) :
          requests[k].endpoint # "token" =>
              /\ k > 1 /\ requests[1].endpoint = "token"
              /\ token \in Tokens
              /\ requests[k].auth = token
              /\ mainpc \in {"ReadCalled", "Done", "Failed"}
    /\ (token = "" /\ mainpc = "Failed") =>
          \A k \in 1..Len(requests) : requests[k].endpoint = "token"
    /\ Len(requests) <= 2
    /\ pc = "panicked" => mainpc \in {"Done", "Failed"}

\* C6: a read that returns Ok has written output.json exactly once, with the
\* complete {header, filtered_data, count}; a read that returns an error has
\* not written a complete result.
C6_ArtifactOncePerRead ==
    (args.fn = "read" /\ pc = "idle" /\ ret.fn = "read") =>
        IF ret.kind = "Ok"
        THEN writes = 1 /\ file = JsonOutput(header, filtered_data, count)
        ELSE writes = 0

\* C7: a read whose JSON answer has no `values` field returns Ok with nothing
\* selected (no header, no rows, zero matches); a transport failure and a body
\* that is not JSON are returned as errors.
C7_NoValuesIsEmpty ==
    /\ (Finished("read") /\ JsonBody /\ response.values.kind = "Null") =>
          /\ pc = "idle"
          /\ ret = Ret("read", "Ok", "")
          /\ header = Null /\ filtered_data = <<>> /\ count = 0
    /\ (Finished("read")
          /\ (response.transport = "fail" \/ (response.transport = "ok" /\ ~response.json))) =>
          /\ pc = "idle"
          /\ ret.fn = "read" /\ ret.kind = "Err"

\* C7 witness: a 200 answer without `values` has been read and Ok returned
C7_Witness ==
    /\ Finished("read") /\ JsonBody /\ response.values.kind = "Null"
    /\ response.status = 200
    /\ ret.kind = "Ok"

\* C8: with PRIVATE_KEY missing or not a PEM key, acquire returns an error and
\* has sent nothing; and the requests sent never outnumber the calls made
\* (one POST per call at most, no retry).
C8_BadKeyNoNetwork ==
    /\ (args.fn = "token" /\ env.key \in {"missing", "bad_pem"}) =>
          /\ pc = "idle"
          /\ ret.fn = "token" /\ ret.kind = "Err"
          /\ requests = <<>>
    /\ Len(requests) <= calls
    /\ \A k \in 1..Len(requests) : requests[k].endpoint = "token"

\* C8 witness: two calls with a key that is not PEM have both failed, and
\* everything else needed for the exchange was in place
C8_Witness ==
    /\ args.fn = "token" /\ calls = 2
    /\ env.email /\ env.key = "bad_pem" /\ clock >= 0
    /\ ret.kind = "Err"

\* C9: every assertion built has exp = iat + 3600 > iat; iat is the clock
\* reading of the call that built it, so later assertions never carry an
\* earlier iat; and the k-th request carries the k-th assertion built, never
\* an older one.
C9_AssertionFresh ==
    /\ \A i \in 1..Len(assertions) :
          /\ assertions[i].exp = assertions[i].iat + 3600
          /\ assertions[i].exp > assertions[i].iat
    /\ \A i, j \in 1..Len(assertions) :
          i < j => assertions[i].iat <= assertions[j].iat
    /\ assertions # <<>> => assertions[Len(assertions)].iat = clock
    /\ Len(requests) <= Len(assertions)
    /\ \A k \in 1..Len(requests) :
          requests[k].assertion = assertions[Len(assertions) - Len(requests) + k]

\* C9 witness: two calls in a row, the clock having moved on in between, each
\* sent its own assertion
C9_Witness ==
    /\ Len(assertions) = 2 /\ Len(requests) = 2
    /\ assertions[1].iat < assertions[2].iat
    /\ pc = "idle" /\ ret.kind = "Ok"

\* C10: for every `values` array, the empty one included, the read ends
\* normally with zero or more matched rows; it never aborts.
C10_ReadTotal ==
    (args.fn = "read" /\ JsonBody /\ response.values.kind = "Array") =>
        /\ pc = "idle"
        /\ ret.fn = "read"
        /\ count = Len(filtered_data)

====
